---- MODULE Spec2Model ----
(***************************************************************************)
(* Model of scripts/update_news.py (class AINewsUpdater).                  *)
(*                                                                         *)
(* A text is a sequence of characters; a character is a one-character      *)
(* string, and a character outside ASCII is written by its code point      *)
(* ("U+CD9C").  Scores are kept in hundredths (7.0 is 700), so that the    *)
(* rounding to one decimal is an operation and not the identity.           *)
(***************************************************************************)
EXTENDS Integers, Sequences, FiniteSets, TLC

VARIABLES
    pc,            \* where run() stands, or a direct call: made or returned
    kw,            \* the loop of search_ai_news: the index of the next keyword
    news_data,     \* self.news_data
    accumulated,   \* self.news_data as the loop of search_ai_news left it
    fetch_log,     \* the keywords fetch_real_news was called with, in order
    feeds,         \* the feed endpoint: its answer for each keyword
    index_html,    \* the file index.html
    io_log,        \* the reads and writes of index.html, with their outcome
    html_content,  \* run's html_content
    exit_code,     \* what run returned
    call           \* a direct call of a method: its arguments and result

vars == <<pc, kw, news_data, accumulated, fetch_log, feeds, index_html, io_log,
          html_content, exit_code, call>>

---------------------------------------------------------------------------
(* Bounds of the model.                                                    *)

\* the number of fragments a title or text handed to a direct call is made of
MaxFrags == 2
\* the number of leading keywords whose feed response varies
MaxVaried == 2

---------------------------------------------------------------------------
(* Python's str operations.                                                *)

Min(a, b) == IF a <= b THEN a ELSE b

Upper == <<"A","B","C","D","E","F","G","H","I","J","K","L","M",
           "N","O","P","Q","R","S","T","U","V","W","X","Y","Z">>
Lower == <<"a","b","c","d","e","f","g","h","i","j","k","l","m",
           "n","o","p","q","r","s","t","u","v","w","x","y","z">>

\* str.lower() on one character
LowerChar(c) ==
    IF \E i \in 1..Len(Upper) : Upper[i] = c
    THEN Lower[CHOOSE i \in 1..Len(Upper) : Upper[i] = c]
    ELSE c

\* str.lower()
lower(s) == [i \in 1..Len(s) |-> LowerChar(s[i])]

\* `sub in s` on two str
Contains(sub, s) ==
    \E i \in 0..(Len(s) - Len(sub)) : SubSeq(s, i + 1, i + Len(sub)) = sub

Whitespace == {" ", "\t", "\n"}

\* len(text.strip()) == 0
IsBlank(text) == \A i \in 1..Len(text) : text[i] \in Whitespace

RECURSIVE Loop(_, _, _, _, _)
\* `for item in items[lo..hi]: acc = Step(acc, item)`, one half after the
\* other: the first half's result is computed (the test on `left`) before the
\* second half is entered
Loop(Step(_, _), acc, items, lo, hi) ==
    IF lo > hi THEN acc
    ELSE IF lo = hi THEN Step(acc, items[lo])
    ELSE LET mid == (lo + hi) \div 2
             left == Loop(Step, acc, items, lo, mid)
         IN  IF left = left THEN Loop(Step, left, items, mid + 1, hi) ELSE left

Joining(acc, part) == acc \o part

\* ''.join(parts)
Concat(parts) == Loop(Joining, <<>>, parts, 1, Len(parts))

---------------------------------------------------------------------------
(* calculate_importance                                                    *)

BaseScore == 700
TargetSourceBonus == 150
HighImpactBonus == 150
MediumImpactBonus == 80
PremiumSourceBonus == 100
MaxScore == 950

high_impact == << <<"b","r","e","a","k","t","h","r","o","u","g","h">>, <<"r","e","v","o","l","u","t","i","o","n","a","r","y">>, <<"U+D68D","U+AE30","U+C801">>, <<"l","a","u","n","c","h">>,
                  <<"U+CD9C","U+C2DC">>, <<"r","e","l","e","a","s","e","s">>, <<"u","n","v","e","i","l","s">> >>
medium_impact == << <<"u","p","d","a","t","e">>, <<"U+C5C5","U+B370","U+C774","U+D2B8">>, <<"a","n","n","o","u","n","c","e","s">>, <<"U+BC1C","U+D45C">>, <<"r","e","v","e","a","l","s">> >>
premium_sources == << <<"T","e","c","h","C","r","u","n","c","h">>, <<"T","h","e"," ","V","e","r","g","e">>, <<"M","I","T">>, <<"N","a","t","u","r","e">>,
                      <<"B","l","o","o","m","b","e","r","g">>, <<"R","e","u","t","e","r","s">> >>

RECURSIVE ScanEveryMatch(_, _, _, _)
\* the loop without its break: the bonus once per term found
ScanEveryMatch(words, i, title_lower, bonus) ==
    IF i > Len(words) THEN 0
    ELSE (IF Contains(words[i], title_lower) THEN bonus ELSE 0)
         + ScanEveryMatch(words, i + 1, title_lower, bonus)

RECURSIVE ScanImpact(_, _, _, _)
\* for word in words: if word in title_lower: score += bonus; break
ScanImpact(words, i, title_lower, bonus) ==
    IF i > Len(words) THEN 0
    ELSE IF Contains(words[i], title_lower) THEN bonus
    ELSE ScanImpact(words, i + 1, title_lower, bonus)

\* round(score, 1) of a score in hundredths: to the nearest tenth, a tie to
\* the even tenth
round1(h) ==
    LET q == h \div 10
        r == h % 10
    IN  IF r < 5 THEN q * 10
        ELSE IF r > 5 THEN (q + 1) * 10
        ELSE IF q % 2 = 0 THEN q * 10 ELSE (q + 1) * 10

\* the score before the final min(9.5, round(score, 1))
RawScore(title, source, is_target_source) ==
    LET title_lower == lower(title)
    IN  BaseScore
        + (IF is_target_source THEN TargetSourceBonus ELSE 0)
        + ScanImpact(high_impact, 1, title_lower, HighImpactBonus)
        + ScanImpact(medium_impact, 1, title_lower, MediumImpactBonus)
        + (IF \E i \in 1..Len(premium_sources) : Contains(premium_sources[i], source)
           THEN PremiumSourceBonus ELSE 0)

\* the return without the clamp
calculate_importance_unclamped(title, source, is_target_source) ==
    round1(RawScore(title, source, is_target_source))

calculate_importance(title, source, is_target_source) ==
    Min(MaxScore, round1(RawScore(title, source, is_target_source)))

---------------------------------------------------------------------------
(* classify_category                                                       *)

\* self.categories, in the order the dict is written
categories == <<
    [name |-> "chatgpt",  keywords |-> << <<"C","h","a","t","G","P","T">>, <<"G","P","T","-","4">>, <<"G","P","T","-","5">>, <<"O","p","e","n","A","I">> >>],
    [name |-> "gemini",   keywords |-> << <<"G","e","m","i","n","i">>, <<"G","o","o","g","l","e"," ","A","I">>, <<"B","a","r","d">> >>],
    [name |-> "deepseek", keywords |-> << <<"D","e","e","p","S","e","e","k">>, <<"D","e","e","p","S","e","e","k","-","V","3">>, <<"D","e","e","p","S","e","e","k"," ","A","I">> >>],
    [name |-> "qwen",     keywords |-> << <<"Q","w","e","n">>, <<"Q","w","e","n"," ","2",".","5">>, <<"A","l","i","b","a","b","a"," ","A","I">> >> ],
    [name |-> "kimi",     keywords |-> << <<"K","i","m","i">>, <<"K","i","m","i","-","K","2">>, <<"M","o","o","n","s","h","o","t"," ","A","I">> >>] >>

DefaultCategory == "chatgpt"

\* scores[category] after the inner loop over one category's keywords
CategoryScore(i, text_lower) ==
    Cardinality({j \in 1..Len(categories[i].keywords) :
                    Contains(lower(categories[i].keywords[j]), text_lower)})

RECURSIVE BuildScores(_, _)
\* scores.items(): a category enters the defaultdict when it first scores
BuildScores(i, text_lower) ==
    IF i > Len(categories) THEN <<>>
    ELSE (IF CategoryScore(i, text_lower) > 0
          THEN << [category |-> categories[i].name,
                   score |-> CategoryScore(i, text_lower)] >>
          ELSE <<>>)
         \o BuildScores(i + 1, text_lower)

RECURSIVE MaxLast(_, _, _)
\* a max that lets a later equal element win
MaxLast(items, i, best) ==
    IF i > Len(items) THEN best
    ELSE MaxLast(items, i + 1,
                 IF items[i].score >= best.score THEN items[i] ELSE best)

RECURSIVE MaxFirst(_, _, _)
\* max(items, key=score): the first of the largest elements
MaxFirst(items, i, best) ==
    IF i > Len(items) THEN best
    ELSE MaxFirst(items, i + 1,
                  IF items[i].score > best.score THEN items[i] ELSE best)

\* max(scores.items(), key=lambda x: x[1]) with a later tie winning
PyMaxLastWins(items) == MaxLast(items, 2, items[1])

\* max(scores.items(), key=lambda x: x[1])
PyMax(items) == MaxFirst(items, 2, items[1])

classify_category(text) ==
    LET scores == BuildScores(1, lower(text))
    IN  IF Len(scores) > 0 THEN PyMax(scores).category ELSE DefaultCategory

---------------------------------------------------------------------------
(* translate_to_korean                                                     *)
(*                                                                         *)
(* A JSON value is [t, v]: t its type, v its characters (a string), its    *)
(* elements (an array) or its keys as strings (an object).                 *)

JNull == [t |-> "null", v |-> <<>>]
JZero == [t |-> "zero", v |-> <<>>]
JNum == [t |-> "number", v |-> <<>>]
JStr(s) == [t |-> "str", v |-> s]
JList(xs) == [t |-> "list", v |-> xs]
JDict(keys) == [t |-> "dict", v |-> [i \in 1..Len(keys) |-> JStr(keys[i])]]

Ok(x) == [ok |-> TRUE, val |-> x]
Raised == [ok |-> FALSE, val |-> JNull]

\* x[0]: IndexError on an empty list or str, KeyError on an object (its keys
\* are strings), TypeError on null and numbers
Index0(x) ==
    IF x.t = "list" /\ Len(x.v) > 0 THEN Ok(x.v[1])
    ELSE IF x.t = "str" /\ Len(x.v) > 0 THEN Ok(JStr(<<x.v[1]>>))
    ELSE Raised

\* `for item in x`: the elements of a list, the characters of a str, the keys
\* of an object; TypeError otherwise
Iterate(x) ==
    IF x.t \in {"list", "dict"} THEN Ok(x.v)
    ELSE IF x.t = "str" THEN Ok([i \in 1..Len(x.v) |-> JStr(<<x.v[i]>>)])
    ELSE Raised

\* bool(x)
Truthy(x) ==
    IF x.t \in {"null", "zero"} THEN FALSE
    ELSE IF x.t = "number" THEN TRUE
    ELSE Len(x.v) > 0

RECURSIVE Segments(_, _)
\* [item[0] for item in items if item[0]]
Segments(items, i) ==
    IF i > Len(items) THEN Ok(<<>>)
    ELSE LET first == Index0(items[i])
             rest == Segments(items, i + 1)
         IN  IF ~first.ok THEN Raised
             ELSE IF ~rest.ok THEN Raised
             ELSE IF Truthy(first.val) THEN Ok(<<first.val>> \o rest.val)
             ELSE rest

\* ''.join([item[0] for item in result[0] if item[0]]): TypeError when an
\* element is not a str
ExtractTranslated(result) ==
    LET r0 == Index0(result)
        items == IF r0.ok THEN Iterate(r0.val) ELSE Raised
        segs == IF items.ok THEN Segments(items.val, 1) ELSE Raised
    IN  IF ~segs.ok THEN Raised
        ELSE IF \E i \in 1..Len(segs.val) : segs.val[i].t # "str" THEN Raised
        ELSE Ok(Concat([i \in 1..Len(segs.val) |-> segs.val[i].v]))

\* The translation endpoint's answers: no answer (a network error or the
\* timeout), or a status with a body that is JSON or is not.
NetworkError == [kind |-> "error", status |-> 0, json |-> FALSE, body |-> JNull]
Http(status) == [kind |-> "http", status |-> status, json |-> FALSE, body |-> JNull]
Http200(body) == [kind |-> "http", status |-> 200, json |-> TRUE, body |-> body]
Http200NotJson == [kind |-> "http", status |-> 200, json |-> FALSE, body |-> JNull]

\* one segment of the endpoint's answer: [translated, original, null, null, 10]
Segment(translated, original) ==
    JList(<<JStr(translated), JStr(original), JNull, JNull, JNum>>)

\* the answer the endpoint documents: [[segment, ...], null, "en", ...]
Translation(segments) == Http200(JList(<<JList(segments), JNull, JStr(<<"e","n">>)>>))

\* translate_to_korean(text), the endpoint answering `response`: what it
\* returns and the number of requests it made
translate_to_korean(text, response) ==
    IF Len(text) = 0 \/ IsBlank(text)
    THEN [result |-> text, requests |-> 0]
    ELSE IF response.kind = "error" THEN [result |-> text, requests |-> 1]
    ELSE IF response.status = 200
         THEN IF response.json /\ ExtractTranslated(response.body).ok
              THEN [result |-> ExtractTranslated(response.body).val, requests |-> 1]
              ELSE [result |-> text, requests |-> 1]
    ELSE [result |-> text, requests |-> 1]

---------------------------------------------------------------------------
(* fetch_real_news and what it calls                                       *)

\* the keywords of search_ai_news, in order
keywords == << <<"C","h","a","t","G","P","T"," ","O","p","e","n","A","I">>, <<"G","o","o","g","l","e"," ","G","e","m","i","n","i"," ","A","I">>, <<"D","e","e","p","S","e","e","k"," ","A","I">>,
               <<"Q","w","e","n"," ","A","l","i","b","a","b","a">>, <<"K","i","m","i"," ","M","o","o","n","s","h","o","t"," ","A","I">>, <<"C","h","a","t","G","P","T"," ","n","e","w","s">>,
               <<"G","e","m","i","n","i"," ","u","p","d","a","t","e">>, <<"D","e","e","p","S","e","e","k"," ","m","o","d","e","l">>, <<"Q","w","e","n"," ","L","L","M">>,
               <<"K","i","m","i","-","K","2"," ","t","h","i","n","k","i","n","g">>, <<"O","p","e","n","A","I"," ","G","P","T">>, <<"G","o","o","g","l","e"," ","A","I">>,
               <<"D","e","e","p","S","e","e","k"," ","V","3">>, <<"Q","w","e","n"," ","2",".","5">>, <<"M","o","o","n","s","h","o","t"," ","A","I">> >>

target_sources == << <<"t","h","e","v","e","r","g","e",".","c","o","m">>, <<"t","e","c","h","c","r","u","n","c","h",".","c","o","m">> >>

important_words == << <<"C","h","a","t","G","P","T">>, <<"O","p","e","n","A","I">>, <<"G","e","m","i","n","i">>, <<"G","o","o","g","l","e">>, <<"D","e","e","p","S","e","e","k">>,
                      <<"Q","w","e","n">>, <<"K","i","m","i">>, <<"M","o","o","n","s","h","o","t">>, <<"A","I">>, <<"L","L","M">>, <<"G","P","T">> >>

\* max_items of fetch_real_news, as search_ai_news passes it
MaxItems == 10
\* the cut of a description
DescriptionLimit == 200
\* the cut of the ranked list
MaxNews == 100

Digits == <<"0","1","2","3","4","5","6","7","8","9">>

RECURSIVE Str(_)
\* str(n) of n >= 0
Str(n) == IF n < 10 THEN <<Digits[n + 1]>> ELSE Str(n \div 10) \o <<Digits[(n % 10) + 1]>>

\* A child element of a feed entry: present with its text, or absent.  A bs4
\* Tag is truthy whatever it holds, so `x.text if x else d` is d only when
\* the element is absent.
Tag(text) == [present |-> TRUE, text |-> text]
NoTag == [present |-> FALSE, text |-> <<>>]
TagText(tag, default) == IF tag.present THEN tag.text ELSE default

\* pubDate as parsedate_to_datetime and the clock see it: not a date, or a date
\* `age` seconds ago
NotADate == [parses |-> FALSE, age |-> 0]
Age(seconds) == [parses |-> TRUE, age |-> seconds]

calculate_time_ago(pub_date) ==
    IF ~pub_date.parses THEN <<"U+CD5C","U+ADFC">>
    ELSE IF pub_date.age < 3600 THEN Str(pub_date.age \div 60) \o <<"U+BD84"," ","U+C804">>
    ELSE IF pub_date.age < 86400 THEN Str(pub_date.age \div 3600) \o <<"U+C2DC","U+AC04"," ","U+C804">>
    ELSE Str(pub_date.age \div 86400) \o <<"U+C77C"," ","U+C804">>

\* s.split()[0] of a text that holds a word: from its first character that is
\* no whitespace up to the next whitespace
FirstWord(s) ==
    LET start == CHOOSE i \in 1..Len(s) :
                    s[i] \notin Whitespace /\ \A j \in 1..(i - 1) : s[j] \in Whitespace
        stop == CHOOSE i \in start..Len(s) :
                    /\ \A j \in start..i : s[j] \notin Whitespace
                    /\ (i = Len(s) \/ s[i + 1] \in Whitespace)
    IN  SubSeq(s, start, stop)

\* a turn of the loop of lines 246-250; the break leaves the later words out
ExtractWord(found, word, title_lower) ==
    IF Len(found) >= 3 THEN found
    ELSE IF Contains(lower(word), title_lower)
            /\ \A j \in 1..Len(found) : found[j] # word
         THEN Append(found, word)
    ELSE found

extract_keywords(title, base_keyword) ==
    LET title_lower == lower(title)
        found == Loop(LAMBDA f, w : ExtractWord(f, w, title_lower),
                      <<FirstWord(base_keyword)>>, important_words,
                      1, Len(important_words))
    IN  SubSeq(found, 1, Min(3, Len(found)))

\* one character of the markup parser: a tag runs from "<" to the next ">"
StripChar(acc, c) ==
    IF acc.in_tag THEN [acc EXCEPT !.in_tag = (c # ">")]
    ELSE IF c = "<" THEN [acc EXCEPT !.in_tag = TRUE]
    ELSE [acc EXCEPT !.text = Append(acc.text, c)]

\* BeautifulSoup(description, 'html.parser').get_text(): the text outside the
\* markup
StripTags(s) == Loop(StripChar, [text |-> <<>>, in_tag |-> FALSE], s, 1, Len(s)).text

\* description_clean[:200] + "..." if len(description_clean) > 200
Shorten(text) ==
    IF Len(text) > DescriptionLimit
    THEN SubSeq(text, 1, DescriptionLimit) \o <<".",".",".">>
    ELSE text

Today == "today"

\* the dict appended for one feed entry
NewsItem(entry, keyword, id) ==
    LET title == TagText(entry.title, <<>>)
        link == TagText(entry.link, <<>>)
        description == TagText(entry.description, <<>>)
        source == TagText(entry.source, <<"N","e","w","s">>)
        link_lower == lower(link)
        is_target_source ==
            \E i \in 1..Len(target_sources) : Contains(target_sources[i], link_lower)
        description_clean == Shorten(StripTags(description))
        title_ko == translate_to_korean(title, entry.tr_title).result
        description_ko ==
            IF Len(description_clean) > 0
            THEN translate_to_korean(description_clean, entry.tr_description).result
            ELSE title_ko \o <<"U+C5D0"," ","U+B300","U+D55C"," ","U+CD5C","U+C2E0"," ","U+C18C","U+C2DD","U+C785","U+B2C8","U+B2E4",".">>
    IN  [id |-> id,
         title |-> title_ko,
         source |-> source,
         category |-> classify_category(title \o <<" ">> \o description_clean),
         date |-> Today,
         time |-> calculate_time_ago(entry.pubDate),
         importance |-> calculate_importance(title, source, is_target_source),
         description |-> description_ko,
         link |-> link,
         keywords |-> extract_keywords(title, keyword)]

\* a turn of the loop with no try around it: the entry's failure ends the loop
ProcessEntryUnguarded(state, entry, keyword, base) ==
    IF state.done THEN state
    ELSE IF entry.raises THEN [state EXCEPT !.done = TRUE]
    ELSE LET appended ==
                 Append(state.news_items,
                        NewsItem(entry, keyword, base + Len(state.news_items) + 1))
         IN  [news_items |-> appended, done |-> Len(appended) >= MaxItems]

\* a turn of the loop of lines 129-184: the entry's failure is caught and the
\* loop goes on (lines 182-184); `done` is the break at max_items (lines
\* 176-177); `base` is len(self.news_data)
ProcessEntry(state, entry, keyword, base) ==
    IF state.done THEN state
    ELSE IF entry.raises THEN state
    ELSE LET appended ==
                 Append(state.news_items,
                        NewsItem(entry, keyword, base + Len(state.news_items) + 1))
         IN  [news_items |-> appended, done |-> Len(appended) >= MaxItems]

\* for item in items: ...
FeedLoop(items, keyword, base) ==
    Loop(LAMBDA state, entry : ProcessEntry(state, entry, keyword, base),
         [news_items |-> <<>>, done |-> FALSE], items, 1, Len(items)).news_items

\* The feed endpoint's answers: no answer (a network error or the timeout), or
\* a status with the entries of the feed it sent.
FeedError == [kind |-> "error", status |-> 0, items |-> <<>>]
FeedHttp(status, items) == [kind |-> "http", status |-> status, items |-> items]

\* fetch_real_news reading the feed whatever the status
fetch_whatever_status(keyword, response, base) ==
    IF response.kind = "error" THEN <<>>
    ELSE FeedLoop(SubSeq(response.items, 1, Min(Len(response.items), MaxItems * 2)),
                  keyword, base)

\* fetch_real_news(keyword, max_items=10), the endpoint answering `response`
fetch_real_news(keyword, response, base) ==
    IF response.kind = "error" THEN <<>>
    ELSE IF response.status # 200 THEN <<>>
    ELSE FeedLoop(SubSeq(response.items, 1, Min(Len(response.items), MaxItems * 2)),
                  keyword, base)

---------------------------------------------------------------------------
(* search_ai_news after the loop: deduplicate, rank, cut                   *)

\* the size of an MD5 digest in bytes
DigestSize == 16

\* hashlib.md5(title.encode()).hexdigest().  A digest is a function of the
\* title alone, of a fixed size, and so not injective; the model's digest is
\* the title's first 16 characters, under which two longer titles can collide.
md5(title) == SubSeq(title, 1, Min(Len(title), DigestSize))

\* a turn of the loop that lets a later item replace the one seen first
KeepLast(unique_news, item) ==
    Append(SelectSeq(unique_news, LAMBDA u : md5(u.title) # md5(item.title)), item)

\* a turn of the loop of lines 101-105.  `seen` holds the digest of every
\* item of unique_news and of no other: an item left out has the digest of
\* one that is in.
KeepFirst(unique_news, item) ==
    IF \E j \in 1..Len(unique_news) : md5(unique_news[j].title) = md5(item.title)
    THEN unique_news
    ELSE Append(unique_news, item)

\* lines 99-105
Dedup(items) == Loop(KeepFirst, <<>>, items, 1, Len(items))

\* an insertion that puts the item before those of equal importance
InsertBeforeEqual(sorted, item) ==
    LET n == Cardinality({j \in 1..Len(sorted) : sorted[j].importance > item.importance})
    IN  SubSeq(sorted, 1, n) \o <<item>> \o SubSeq(sorted, n + 1, Len(sorted))

\* the place of an item in a list sorted so far: after every item whose
\* importance is at least its own
InsertDesc(sorted, item) ==
    LET n == Cardinality({j \in 1..Len(sorted) : sorted[j].importance >= item.importance})
    IN  SubSeq(sorted, 1, n) \o <<item>> \o SubSeq(sorted, n + 1, Len(sorted))

\* list.sort(key=importance, reverse=True): descending and stable
SortDesc(items) == Loop(InsertDesc, <<>>, items, 1, Len(items))

\* unique_news[:100]
Cut(items) == SubSeq(items, 1, Min(Len(items), MaxNews))

\* lines 98-109
Rank(items) == Cut(SortDesc(Dedup(items)))

---------------------------------------------------------------------------
(* generate_html, get_default_news, save_html                              *)

get_default_news == <<
    [id |-> 1, title |-> <<"O","p","e","n","A","I"," ","U+CD5C","U+C2E0"," ","A","I"," ","U+BAA8","U+B378"," ","U+BC1C","U+D45C">>, source |-> <<"T","e","c","h","C","r","u","n","c","h">>,
     category |-> "chatgpt", date |-> Today, time |-> <<"2","U+C2DC","U+AC04"," ","U+C804">>, importance |-> 950,
     description |-> <<"O","p","e","n","A","I","U+AC00"," ","U+CD5C","U+C2E0"," ","A","I"," ","U+BAA8","U+B378","U+C744"," ","U+ACF5","U+AC1C","U+D558","U+BA70"," ","U+C5C5","U+ACC4","U+C5D0"," ","U+C0C8","U+B85C","U+C6B4"," ","U+AE30","U+C900","U+C744"," ","U+C81C","U+C2DC","U+D588","U+C2B5","U+B2C8","U+B2E4",".">>,
     link |-> <<"h","t","t","p","s",":","/","/","w","w","w",".","g","o","o","g","l","e",".","c","o","m","/","s","e","a","r","c","h","?","q","=","O","p","e","n","A","I","+","l","a","t","e","s","t","+","n","e","w","s">>,
     keywords |-> << <<"O","p","e","n","A","I">>, <<"A","I">>, <<"C","h","a","t","G","P","T">> >>],
    [id |-> 2, title |-> <<"G","o","o","g","l","e"," ","G","e","m","i","n","i"," ","U+C8FC","U+C694"," ","U+C5C5","U+B370","U+C774","U+D2B8">>, source |-> <<"T","h","e"," ","V","e","r","g","e">>,
     category |-> "gemini", date |-> Today, time |-> <<"4","U+C2DC","U+AC04"," ","U+C804">>, importance |-> 880,
     description |-> <<"G","o","o","g","l","e","U+C774"," ","G","e","m","i","n","i","U+C758"," ","U+B300","U+ADDC","U+BAA8"," ","U+C5C5","U+B370","U+C774","U+D2B8","U+B97C"," ","U+BC1C","U+D45C","U+D588","U+C2B5","U+B2C8","U+B2E4",".">>,
     link |-> <<"h","t","t","p","s",":","/","/","w","w","w",".","g","o","o","g","l","e",".","c","o","m","/","s","e","a","r","c","h","?","q","=","G","o","o","g","l","e","+","G","e","m","i","n","i","+","u","p","d","a","t","e">>,
     keywords |-> << <<"G","o","o","g","l","e">>, <<"G","e","m","i","n","i">>, <<"A","I">> >>],
    [id |-> 3, title |-> <<"D","e","e","p","S","e","e","k"," ","U+C0C8","U+B85C","U+C6B4"," ","U+BAA8","U+B378"," ","U+CD9C","U+C2DC">>, source |-> <<"A","r","s"," ","T","e","c","h","n","i","c","a">>,
     category |-> "deepseek", date |-> Today, time |-> <<"6","U+C2DC","U+AC04"," ","U+C804">>, importance |-> 850,
     description |-> <<"D","e","e","p","S","e","e","k","U+C774"," ","U+D601","U+C2E0","U+C801","U+C778"," ","U+C0C8"," ","U+BAA8","U+B378","U+C744"," ","U+ACF5","U+AC1C","U+D588","U+C2B5","U+B2C8","U+B2E4",".">>,
     link |-> <<"h","t","t","p","s",":","/","/","w","w","w",".","g","o","o","g","l","e",".","c","o","m","/","s","e","a","r","c","h","?","q","=","D","e","e","p","S","e","e","k","+","A","I","+","m","o","d","e","l">>,
     keywords |-> << <<"D","e","e","p","S","e","e","k">>, <<"A","I">>, <<"L","L","M">> >>] >>

\* one character as json.dumps(..., ensure_ascii=False) writes it between the
\* quotes of a string
EscapeChar(acc, c) ==
    acc \o (IF c = "\"" THEN <<"\\", "\"">>
            ELSE IF c = "\\" THEN <<"\\", "\\">>
            ELSE IF c = "\n" THEN <<"\\", "n">>
            ELSE IF c = "\t" THEN <<"\\", "t">>
            ELSE <<c>>)

JsonEscape(s) == Loop(EscapeChar, <<>>, s, 1, Len(s))

\* one character of a replacement template: after a backslash, \\ is a
\* backslash, \n a line feed, \t a tab, and a character that is no letter or
\* digit stays behind its backslash
TemplateChar(acc, c) ==
    IF acc.escape
    THEN [text |-> acc.text \o (IF c = "\\" THEN <<"\\">>
                                ELSE IF c = "n" THEN <<"\n">>
                                ELSE IF c = "t" THEN <<"\t">>
                                ELSE <<"\\", c>>),
          escape |-> FALSE]
    ELSE IF c = "\\" THEN [acc EXCEPT !.escape = TRUE]
    ELSE [acc EXCEPT !.text = Append(acc.text, c)]

\* re.sub reads its replacement as a template
ExpandTemplate(s) == Loop(TemplateChar, [text |-> <<>>, escape |-> FALSE], s, 1, Len(s)).text

\* a string of the news as it stands in the written block
Written(s) == ExpandTemplate(JsonEscape(s))

\* the list as re.sub writes json.dumps(self.news_data) into the document
Serialized(news) ==
    [i \in 1..Len(news) |->
        [id |-> news[i].id,
         title |-> Written(news[i].title),
         source |-> Written(news[i].source),
         category |-> news[i].category,
         date |-> news[i].date,
         time |-> Written(news[i].time),
         importance |-> news[i].importance,
         description |-> Written(news[i].description),
         link |-> Written(news[i].link),
         keywords |-> [j \in 1..Len(news[i].keywords) |-> Written(news[i].keywords[j])]]]

\* index.html as the two patterns see it: a sequence of pieces, each a
\* `const NEWS_DATA = [...];` statement with its list, a `date: 'YYYY-MM-DD'`
\* stamp with its date, or other text.
NewsBlock(data) == [kind |-> "news", data |-> data, date |-> ""]
DateStamp(date) == [kind |-> "date", data |-> <<>>, date |-> date]
OtherText == [kind |-> "text", data |-> <<>>, date |-> ""]

\* what generate_html falls back to with the fallback left out
FallbackNone(news) == news

\* lines 275-277
Fallback(news) == IF news = <<>> THEN get_default_news ELSE news

\* lines 280-300: every match of either pattern is replaced
generate_html(news, document) ==
    [i \in 1..Len(document) |->
        IF document[i].kind = "news" THEN NewsBlock(Serialized(news))
        ELSE IF document[i].kind = "date" THEN DateStamp(Today)
        ELSE document[i]]

---------------------------------------------------------------------------
(* The inputs: what the two endpoints answer, the document on disk, and    *)
(* the arguments of a direct call.                                         *)

\* the translation endpoint's answers
TrResponses == <<
    NetworkError,
    Http(500),
    Http(429),
    Http200NotJson,
    Translation(<< Segment(<<"U+C548","U+B155","U+D558","U+C138","U+C694">>, <<"H","e","l","l","o">>) >>),
    Translation(<< Segment(<<"U+C548","U+B155","."," ">>, <<"H","i","."," ">>), Segment(<<"U+BC18","U+AC00","U+C6CC">>, <<"t","h","e","r","e">>) >>),
    Translation(<< >>),
    Translation(<< JList(<<JNull, JStr(<<"H","e","l","l","o">>)>>) >>),
    Http200(JNull),
    Http200(JList(<< >>)),
    Http200(JDict(<< <<"e","r","r","o","r">> >>)),
    Http200(JList(<< JStr(<<"a","b","c">>) >>)),
    Http200(JList(<< JList(<< JStr(<<"x","y">>) >>) >>)),
    Http200(JList(<< JList(<< JList(<< JNum >>) >>) >>)),
    Http200(JList(<< JDict(<< <<"s","e","n","t","e","n","c","e","s">> >>) >>)) >>

\* the answer that leaves a text as it is
Untranslated == NetworkError

Entry(title, source, link, description, tr) ==
    [title |-> Tag(title), link |-> Tag(link), pubDate |-> Age(5400),
     description |-> Tag(description), source |-> Tag(source),
     tr_title |-> tr, tr_description |-> tr, raises |-> FALSE]

\* an entry whose processing raises
Failing(entry) == [entry EXCEPT !.raises = TRUE]

GeminiVerge ==
    Entry(<<"G","o","o","g","l","e"," ","G","e","m","i","n","i"," ","u","p","d","a","t","e">>, <<"T","h","e"," ","V","e","r","g","e">>, <<"h","t","t","p","s",":","/","/","w","w","w",".","t","h","e","v","e","r","g","e",".","c","o","m","/","a">>,
          <<"<","a"," ","h","r","e","f","=","\"","x","\"",">","G","e","m","i","n","i","<","/","a",">"," ","g","e","t","s"," ","a","n"," ","u","p","d","a","t","e">>, Untranslated)
GeminiBlog ==
    Entry(<<"G","o","o","g","l","e"," ","G","e","m","i","n","i"," ","u","p","d","a","t","e">>, <<"B","l","o","g">>, <<"h","t","t","p","s",":","/","/","e","x","a","m","p","l","e",".","c","o","m","/","b">>, <<>>, Untranslated)
OpenAIUnveils ==
    Entry(<<"O","p","e","n","A","I"," ","u","n","v","e","i","l","s"," ","G","P","T","-","5">>, <<"T","e","c","h","C","r","u","n","c","h">>, <<"h","t","t","p","s",":","/","/","T","e","c","h","C","r","u","n","c","h",".","c","o","m","/","c">>,
          <<"O","p","e","n","A","I"," ","\"","G","P","T","-","5","\"">>, Untranslated)
QwenNews ==
    Entry(<<"Q","w","e","n"," ","n","e","w","s">>, <<"B","l","o","g">>, <<"h","t","t","p","s",":","/","/","e","x","a","m","p","l","e",".","c","o","m","/","d">>, <<"A","l","i","b","a","b","a"," ","A","I">>, Untranslated)
KimiNews ==
    Entry(<<"K","i","m","i"," ","n","e","w","s">>, <<"B","l","o","g">>, <<"h","t","t","p","s",":","/","/","e","x","a","m","p","l","e",".","c","o","m","/","e">>, <<"M","o","o","n","s","h","o","t"," ","A","I">>, Untranslated)
NoTitle ==
    [Entry(<<>>, <<"R","e","u","t","e","r","s">>, <<"h","t","t","p","s",":","/","/","e","x","a","m","p","l","e",".","c","o","m","/","f">>, <<"D","e","e","p","S","e","e","k"," ","A","I">>, Untranslated)
        EXCEPT !.title = NoTag, !.pubDate = NotADate]
EmptyTitle ==
    [Entry(<<>>, <<"B","l","o","g">>, <<"h","t","t","p","s",":","/","/","e","x","a","m","p","l","e",".","c","o","m","/","g">>, <<>>, Untranslated)
        EXCEPT !.source = NoTag, !.pubDate = Age(90000)]
DeepSeekLaunch ==
    Entry(<<"D","e","e","p","S","e","e","k"," ","l","a","u","n","c","h">>, <<"R","e","u","t","e","r","s">>, <<"h","t","t","p","s",":","/","/","e","x","a","m","p","l","e",".","c","o","m","/","h">>,
          <<"D","e","e","p","S","e","e","k","-","V","3">>, Untranslated)
Translated ==
    [Entry(<<"H","e","l","l","o">>, <<"B","l","o","g">>, <<"h","t","t","p","s",":","/","/","e","x","a","m","p","l","e",".","c","o","m","/","i">>, <<"H","e","l","l","o">>, TrResponses[5])
        EXCEPT !.pubDate = Age(600)]
Mistranslated ==
    Entry(<<"K","i","m","i"," ","r","e","v","e","a","l","s"," ","K","2">>, <<"B","l","o","g">>, <<"h","t","t","p","s",":","/","/","e","x","a","m","p","l","e",".","c","o","m","/","j">>, <<>>, TrResponses[12])
UntranslatedBlank ==
    Entry(<<"M","o","o","n","s","h","o","t"," ","A","I"," ","a","n","n","o","u","n","c","e","s","\\","K","i","m","i">>, <<"B","l","o","o","m","b","e","r","g">>, <<"h","t","t","p","s",":","/","/","e","x","a","m","p","l","e",".","c","o","m","/","k">>,
          <<>>, TrResponses[7])
LongTitleOne ==
    Entry(<<"C","h","a","t","G","P","T"," ","r","e","l","e","a","s","e","s"," ","n","e","w"," ","m","o","d","e","l"," ","o","n","e">>, <<"B","l","o","g">>, <<"h","t","t","p","s",":","/","/","e","x","a","m","p","l","e",".","c","o","m","/","l">>,
          <<>>, Untranslated)
LongTitleTwo ==
    Entry(<<"C","h","a","t","G","P","T"," ","r","e","l","e","a","s","e","s"," ","u","p","d","a","t","e"," ","t","w","o">>, <<"B","l","o","g">>, <<"h","t","t","p","s",":","/","/","e","x","a","m","p","l","e",".","c","o","m","/","m">>,
          <<>>, Untranslated)

\* a feed of more than 2 * max_items entries: 12 that fail, then 10 that do not
LongFeed ==
    [j \in 1..22 |->
        IF j <= 12 THEN Failing(QwenNews)
        ELSE Entry(Str(j) \o <<" ","Q","w","e","n"," ","u","p","d","a","t","e">>, <<"B","l","o","g">>, <<"h","t","t","p","s",":","/","/","e","x","a","m","p","l","e",".","c","o","m","/","n">>,
                   <<>>, Untranslated)]

\* what the feed endpoint answers for a keyword whose answer varies
VariedResponses == <<
    FeedError,
    FeedHttp(503, << GeminiVerge >>),
    FeedHttp(200, << >>),
    FeedHttp(200, << GeminiVerge, GeminiBlog, OpenAIUnveils, QwenNews, KimiNews >>),
    FeedHttp(200, << NoTitle, Failing(OpenAIUnveils), DeepSeekLaunch, EmptyTitle >>),
    FeedHttp(200, << KimiNews, GeminiBlog, LongTitleOne, LongTitleTwo >>),
    FeedHttp(200, << Translated, Mistranslated, UntranslatedBlank >>),
    FeedHttp(200, LongFeed) >>

\* what it answers for the other keywords: nothing found after the first
\* keywords, not found before the last ones
QuietResponses == << FeedHttp(200, << >>), FeedHttp(404, << >>) >>

\* the keywords whose answer varies: MaxVaried in a row, the first ones or
\* the last ones
WindowStarts == {1, Len(keywords) - MaxVaried + 1}

VariedWorlds ==
    { [k \in 1..Len(keywords) |->
          IF k \in first..(first + MaxVaried - 1)
          THEN VariedResponses[choice[k - first + 1]]
          ELSE QuietResponses[IF first = 1 THEN 1 ELSE 2]] :
        first \in WindowStarts,
        choice \in [1..MaxVaried -> 1..Len(VariedResponses)] }

BulkWords == << <<"l","a","u","n","c","h">>, <<"u","p","d","a","t","e">>, <<"n","e","w","s">>, <<"u","n","v","e","i","l","s"," ","u","p","d","a","t","e">> >>

\* a full feed for keyword k: 12 entries, their titles different from one
\* another and from every other keyword's; with `shared`, the first entry is
\* the same for every keyword
BulkFeed(k, shared) ==
    [j \in 1..(MaxItems + 2) |->
        IF shared /\ j = 1
        THEN Entry(<<"A","I"," ","u","p","d","a","t","e">>, Str(k), <<>>, <<>>, Untranslated)
        ELSE Entry(Str(100 * k + j) \o <<" ">> \o FirstWord(keywords[k]) \o <<" ">>
                       \o BulkWords[(j % Len(BulkWords)) + 1],
                   IF j % 3 = 0 THEN <<"R","e","u","t","e","r","s">> ELSE <<"B","l","o","g">>,
                   <<>>, <<>>, Untranslated)]

\* every keyword answered with a full feed, but for keyword `failed` (0: none)
BulkWorlds ==
    { [k \in 1..Len(keywords) |->
          IF k = failed THEN FeedError ELSE FeedHttp(200, BulkFeed(k, shared))] :
        failed \in {0, 3}, shared \in BOOLEAN }

Worlds == VariedWorlds \cup BulkWorlds

\* index.html before the run
Documents == <<
    << OtherText, NewsBlock(<< >>), OtherText, DateStamp("stale") >>,
    << OtherText, DateStamp("stale") >> >>

RECURSIVE Joined(_, _)
\* the texts made of at most n of the fragments
Joined(fragments, n) ==
    IF n = 0 THEN {<<>>}
    ELSE Joined(fragments, n - 1)
         \cup {a \o f : a \in Joined(fragments, n - 1), f \in fragments}

TitleFragments == { <<"O","p","e","n","A","I"," ">>, <<"u","n","v","e","i","l","s"," ">>, <<"L","a","u","n","c","h"," ">>, <<"U","P","D","A","T","E"," ">>, <<"r","e","l","e","a","s","e","s">>,
                    <<"U+C5C5","U+B370","U+C774","U+D2B8">>, <<"a","n","n","o","u","n","c","e","s"," ">>, <<"n","e","w","s">>, <<"l","a","u","n">>, <<"c","h"," ">> }
Titles == Joined(TitleFragments, MaxFrags)
Sources == { <<"T","e","c","h","C","r","u","n","c","h">>, <<"t","e","c","h","c","r","u","n","c","h">>, <<"M","I","T"," ","T","e","c","h","n","o","l","o","g","y"," ","R","e","v","i","e","w">>, <<"B","l","o","g">>,
             <<"T","h","e"," ","V","e","r","g","e">>, <<>> }

TextFragments == { <<"C","h","a","t","G","P","T"," ">>, <<"G","e","m","i","n","i"," ">>, <<"g","o","o","g","l","e"," ","a","i"," ">>, <<"D","e","e","p","S","e","e","k"," ","A","I"," ">>,
                   <<"D","e","e","p","S","e","e","k","-","V","3"," ">>, <<"Q","w","e","n"," ","2",".","5"," ">>, <<"k","i","m","i"," ">>, <<"M","o","o","n","s","h","o","t"," ","A","I"," ">>,
                   <<"n","e","w","s"," ">>, <<"O","P","E","N","A","I"," ">> }
Texts == Joined(TextFragments, MaxFrags)

TranslatedTexts == { <<>>, <<" ">>, <<" ","\n","\t">>, <<"H","e","l","l","o">>, <<"H","i","."," ","t","h","e","r","e">> }

---------------------------------------------------------------------------
(* The state machine: run(), or one direct call of a method.               *)

NoCall == [fn |-> "none", text |-> <<>>, source |-> <<>>, flag |-> FALSE,
           response |-> NetworkError, score |-> 0, label |-> "", result |-> <<>>,
           requests |-> 0]

NotReturned == -1

InitRun ==
    /\ pc = "search"
    /\ kw = 1
    /\ news_data = <<>>
    /\ accumulated = <<>>
    /\ fetch_log = <<>>
    /\ feeds \in Worlds
    /\ \E d \in 1..Len(Documents) : index_html = Documents[d]
    /\ io_log = <<>>
    /\ html_content = <<>>
    /\ exit_code = NotReturned
    /\ call = NoCall

InitCall ==
    /\ pc = "call"
    /\ kw = 0
    /\ news_data = <<>>
    /\ accumulated = <<>>
    /\ fetch_log = <<>>
    /\ feeds = <<>>
    /\ index_html = <<>>
    /\ io_log = <<>>
    /\ html_content = <<>>
    /\ exit_code = NotReturned
    /\ \/ \E title \in Titles, source \in Sources, flag \in BOOLEAN :
            call = [NoCall EXCEPT !.fn = "calculate_importance", !.text = title,
                                  !.source = source, !.flag = flag]
       \/ \E text \in Texts :
            call = [NoCall EXCEPT !.fn = "classify_category", !.text = text]
       \/ \E text \in TranslatedTexts, r \in 1..Len(TrResponses) :
            call = [NoCall EXCEPT !.fn = "translate_to_korean", !.text = text,
                                  !.response = TrResponses[r]]

Init == InitRun \/ InitCall

\* one turn of the loop of search_ai_news (lines 89-96)
FetchKeyword ==
    /\ pc = "search"
    /\ kw <= Len(keywords)
    /\ news_data' = news_data \o fetch_real_news(keywords[kw], feeds[kw], Len(news_data))
    /\ fetch_log' = Append(fetch_log, keywords[kw])
    /\ kw' = kw + 1
    /\ UNCHANGED <<pc, accumulated, feeds, index_html, io_log, html_content, exit_code, call>>

\* the rest of search_ai_news (lines 98-112)
RankNews ==
    /\ pc = "search"
    /\ kw > Len(keywords)
    /\ accumulated' = news_data
    /\ news_data' = Rank(news_data)
    /\ pc' = "generate"
    /\ UNCHANGED <<kw, fetch_log, feeds, index_html, io_log, html_content, exit_code, call>>

\* generate_html, and run's except clause when index.html cannot be read
GenerateHtml ==
    /\ pc = "generate"
    /\ news_data' = Fallback(news_data)
    /\ \E readable \in BOOLEAN :
         /\ io_log' = Append(io_log, [op |-> "read", ok |-> readable])
         /\ IF readable
            THEN /\ html_content' = generate_html(Fallback(news_data), index_html)
                 /\ pc' = "save"
                 /\ UNCHANGED exit_code
            ELSE /\ pc' = "done"
                 /\ exit_code' = 1
                 /\ UNCHANGED html_content
    /\ UNCHANGED <<kw, accumulated, fetch_log, feeds, index_html, call>>

\* save_html and the end of run: the file is written; or open() fails and
\* the file stays; or the write fails after open() has emptied the file
SaveHtml ==
    /\ pc = "save"
    /\ \E outcome \in {"written", "open fails", "write fails"} :
         /\ index_html' = IF outcome = "written" THEN html_content
                          ELSE IF outcome = "open fails" THEN index_html
                          ELSE <<>>
         /\ io_log' = Append(io_log, [op |-> "write", ok |-> outcome = "written"])
         /\ exit_code' = IF outcome = "written" THEN 0 ELSE 1
    /\ pc' = "done"
    /\ UNCHANGED <<kw, news_data, accumulated, fetch_log, feeds, html_content, call>>

CallImportance ==
    /\ pc = "call"
    /\ call.fn = "calculate_importance"
    /\ call' = [call EXCEPT !.score = calculate_importance(call.text, call.source, call.flag)]
    /\ pc' = "returned"
    /\ UNCHANGED <<kw, news_data, accumulated, fetch_log, feeds, index_html, io_log,
                   html_content, exit_code>>

CallClassify ==
    /\ pc = "call"
    /\ call.fn = "classify_category"
    /\ call' = [call EXCEPT !.label = classify_category(call.text)]
    /\ pc' = "returned"
    /\ UNCHANGED <<kw, news_data, accumulated, fetch_log, feeds, index_html, io_log,
                   html_content, exit_code>>

CallTranslate ==
    /\ pc = "call"
    /\ call.fn = "translate_to_korean"
    /\ call' = [call EXCEPT
                  !.result = translate_to_korean(call.text, call.response).result,
                  !.requests = translate_to_korean(call.text, call.response).requests]
    /\ pc' = "returned"
    /\ UNCHANGED <<kw, news_data, accumulated, fetch_log, feeds, index_html, io_log,
                   html_content, exit_code>>

Next ==
    \/ FetchKeyword
    \/ RankNews
    \/ GenerateHtml
    \/ SaveHtml
    \/ CallImportance
    \/ CallClassify
    \/ CallTranslate

Spec == Init /\ [][Next]_vars

---------------------------------------------------------------------------
(* Properties.                                                             *)

Returned(fn) == pc = "returned" /\ call.fn = fn

InRun == pc \in {"search", "generate", "save", "done"}

\* C1: calculate_importance returns a score between 7.0 and 9.5 with at most
\* one decimal digit, for every title, source and flag; so does every item
\* that search_ai_news accumulates and returns.
ScoreBounded(s) == 700 <= s /\ s <= 950 /\ s % 10 = 0

C1_ImportanceInBounds ==
    /\ Returned("calculate_importance") => ScoreBounded(call.score)
    /\ \A i \in 1..Len(news_data) : ScoreBounded(news_data[i].importance)
    /\ \A i \in 1..Len(accumulated) : ScoreBounded(accumulated[i].importance)

\* a call that the clamp decides: the flag, a high-impact term and a premium
\* source together
C1_Witness ==
    /\ Returned("calculate_importance")
    /\ call.flag
    /\ Contains(<<"l","a","u","n","c","h">>, lower(call.text))
    /\ call.source = <<"T","h","e"," ","V","e","r","g","e">>
    /\ call.score = 950

\* C10: calculate_importance is min(9.5, 7.0 + 1.5 [a high-impact term in the
\* title] + 0.8 [a medium-impact term in the title] + 1.0 [a premium source
\* name in the source] + 1.5 [the flag]) rounded to one decimal, each bonus
\* counted once; a title with 'unveils' from 'TechCrunch' without the flag
\* scores 9.5.
HasTerm(terms, title) ==
    \E i \in 1..Len(terms) : Contains(terms[i], lower(title))

ReferenceScore(title, source, flag) ==
    LET sum == 700
               + (IF HasTerm(high_impact, title) THEN 150 ELSE 0)
               + (IF HasTerm(medium_impact, title) THEN 80 ELSE 0)
               + (IF \E i \in 1..Len(premium_sources) : Contains(premium_sources[i], source)
                  THEN 100 ELSE 0)
               + (IF flag THEN 150 ELSE 0)
        clamped == IF sum > 950 THEN 950 ELSE sum
    IN  ((clamped + 5) \div 10) * 10

C10_ImportanceIsReference ==
    Returned("calculate_importance") =>
        /\ call.score = ReferenceScore(call.text, call.source, call.flag)
        /\ (Contains(<<"u","n","v","e","i","l","s">>, call.text) /\ call.source = <<"T","e","c","h","C","r","u","n","c","h">> /\ ~call.flag)
              => call.score = 950

\* the scenario of the specification, and a title with two high-impact terms
C10_Witness ==
    /\ Returned("calculate_importance")
    /\ \/ /\ Contains(<<"u","n","v","e","i","l","s">>, call.text)
          /\ call.source = <<"T","e","c","h","C","r","u","n","c","h">>
          /\ ~call.flag
          /\ call.score = 950
       \/ /\ Contains(<<"l","a","u","n","c","h">>, lower(call.text))
          /\ Contains(<<"r","e","l","e","a","s","e","s">>, lower(call.text))
          /\ call.source = <<"B","l","o","g">>
          /\ ~call.flag
          /\ call.score = 850

\* C4: classify_category returns one key of the taxonomy: the category with
\* the most keyword phrases found in the text (case-insensitive), the one
\* defined first among those with the most, and 'chatgpt' when no category
\* has any.
PhrasesFound(c, text) ==
    Len(SelectSeq(categories[c].keywords, LAMBDA k : Contains(lower(k), lower(text))))

IsFirstBest(label, text) ==
    \E c \in 1..Len(categories) :
        /\ categories[c].name = label
        /\ IF \A d \in 1..Len(categories) : PhrasesFound(d, text) = 0
           THEN label = "chatgpt"
           ELSE /\ PhrasesFound(c, text) > 0
                /\ \A d \in 1..Len(categories) : PhrasesFound(d, text) <= PhrasesFound(c, text)
                /\ \A d \in 1..(c - 1) : PhrasesFound(d, text) < PhrasesFound(c, text)

C4_ClassifierPicksFirstBest ==
    Returned("classify_category") => IsFirstBest(call.label, call.text)

\* a text in which two categories have the most phrases
C4_Witness ==
    /\ Returned("classify_category")
    /\ \E c, d \in 1..Len(categories) :
          /\ c < d
          /\ PhrasesFound(c, call.text) > 0
          /\ PhrasesFound(c, call.text) = PhrasesFound(d, call.text)
          /\ \A e \in 1..Len(categories) : PhrasesFound(e, call.text) <= PhrasesFound(c, call.text)
          /\ call.label = categories[c].name

\* C5: translate_to_korean never raises; when the call fails (no answer, a
\* status other than 200, a body that is not the nested array of segments) it
\* returns the text it was given; an empty or blank text is returned as it
\* is, without a request.
IsSegment(x) == x.t = "list" /\ Len(x.v) > 0 /\ x.v[1].t \in {"str", "null"}

ExpectedBody(response) ==
    /\ response.json
    /\ response.body.t = "list"
    /\ Len(response.body.v) > 0
    /\ response.body.v[1].t = "list"
    /\ \A i \in 1..Len(response.body.v[1].v) : IsSegment(response.body.v[1].v[i])

C5_TranslatorPassesThrough ==
    Returned("translate_to_korean") =>
        /\ (Len(call.text) = 0 \/ IsBlank(call.text))
              => (call.result = call.text /\ call.requests = 0)
        /\ (call.response.kind = "error" \/ call.response.status # 200
               \/ ~ExpectedBody(call.response))
              => call.result = call.text

\* C2: when search_ai_news is done with N accumulated items of M distinct
\* titles, news_data holds at most min(M, 100) items, no two of them with the
\* same title, and the item kept for a title is the first accumulated item
\* with that title.
TitlesOf(items) == {items[i].title : i \in 1..Len(items)}

FirstWithTitle(items, title) ==
    items[CHOOSE i \in 1..Len(items) :
             /\ items[i].title = title
             /\ \A j \in 1..(i - 1) : items[j].title # title]

C2_DedupKeepsFirst ==
    pc = "generate" =>
        /\ Len(news_data) <= Cardinality(TitlesOf(accumulated))
        /\ Len(news_data) <= 100
        /\ \A i, j \in 1..Len(news_data) :
              i # j => news_data[i].title # news_data[j].title
        /\ \A i \in 1..Len(news_data) :
              news_data[i] = FirstWithTitle(accumulated, news_data[i].title)

\* a run with a title accumulated twice and more than 100 distinct titles
C2_Witness ==
    /\ pc = "generate"
    /\ Cardinality(TitlesOf(accumulated)) < Len(accumulated)
    /\ Cardinality(TitlesOf(accumulated)) > 100
    /\ Len(news_data) = 100

\* C3: the list search_ai_news returns is sorted by importance, largest
\* first, items of equal importance in the order of the deduplicated list,
\* and it is the first 100 items of that order.
Place(items, item) == CHOOSE i \in 1..Len(items) : items[i] = item

Before(unique, a, b) ==
    \/ a.importance > b.importance
    \/ a.importance = b.importance /\ Place(unique, a) < Place(unique, b)

C3_RankedStable ==
    pc = "generate" =>
        LET unique == Dedup(accumulated)
            kept == {news_data[i] : i \in 1..Len(news_data)}
            cut == {unique[i] : i \in 1..Len(unique)} \ kept
        IN  /\ kept \subseteq {unique[i] : i \in 1..Len(unique)}
            /\ Len(news_data) = (IF Len(unique) > 100 THEN 100 ELSE Len(unique))
            /\ \A i \in 1..(Len(news_data) - 1) :
                  Before(unique, news_data[i], news_data[i + 1])
            /\ \A a \in kept, b \in cut : Before(unique, a, b)

\* a run that ranks more than 100 items, two neighbours of equal importance
\* among the 100 kept
C3_Witness ==
    /\ pc = "generate"
    /\ Len(Dedup(accumulated)) > 100
    /\ Len(news_data) = 100
    /\ \E i \in 1..99 : news_data[i].importance = news_data[i + 1].importance
    /\ news_data[1].importance > news_data[100].importance

\* C6: when nothing was accumulated and index.html is read and written, run
\* takes the 3 built-in items as news_data, writes them into the NEWS_DATA
\* block and returns 0; a written NEWS_DATA block is never an empty list.
ReadAndWritten ==
    io_log = << [op |-> "read", ok |-> TRUE], [op |-> "write", ok |-> TRUE] >>

Blocks(document) == {i \in 1..Len(document) : document[i].kind = "news"}

C6_EmptyRunPublishesDefault ==
    (pc = "done" /\ ReadAndWritten) =>
        /\ exit_code = 0
        /\ \A i \in Blocks(index_html) : index_html[i].data # <<>>
        /\ accumulated = <<>> =>
              /\ news_data = get_default_news
              /\ Len(news_data) = 3
              /\ \A i \in Blocks(index_html) : index_html[i].data = get_default_news

\* a run in which every fetch failed or was empty, and the document has a block
C6_Witness ==
    /\ pc = "done"
    /\ ReadAndWritten
    /\ accumulated = <<>>
    /\ Len(fetch_log) = Len(keywords)
    /\ \E k \in 1..Len(keywords) : feeds[k].kind = "error"
    /\ Blocks(index_html) # {}

\* C7: a fetch that fails (a status other than 200, no answer) yields no item
\* and does not end the loop: every keyword is fetched once, in the order of
\* the list, and what is accumulated is what it would be had the failed
\* fetches returned empty feeds.
FetchFails(response) == response.kind = "error" \/ response.status # 200

FailuresAsEmpty(world) ==
    [k \in 1..Len(world) |->
        IF FetchFails(world[k]) THEN FeedHttp(200, <<>>) ELSE world[k]]

\* what the first n keywords accumulate, the endpoint answering as `world`
Collected(world, n) ==
    Loop(LAMBDA before, k :
             before \o fetch_real_news(keywords[k], world[k], Len(before)),
         <<>>, [k \in 1..n |-> k], 1, n)

C7_FetchFailureIsolated ==
    /\ pc = "search" => fetch_log = SubSeq(keywords, 1, kw - 1)
    /\ pc = "generate" =>
          /\ fetch_log = keywords
          /\ accumulated = Collected(FailuresAsEmpty(feeds), Len(keywords))
          /\ \A k \in 1..Len(keywords) :
                FetchFails(feeds[k]) => fetch_real_news(keywords[k], feeds[k], 0) = <<>>

\* a run in which a fetch failed and a later keyword's items were accumulated
C7_Witness ==
    /\ pc = "generate"
    /\ \E k, l \in 1..Len(keywords) :
          /\ k < l
          /\ FetchFails(feeds[k])
          /\ feeds[k].items # <<>>
          /\ ~FetchFails(feeds[l])
          /\ feeds[l].items # <<>>
    /\ accumulated # <<>>

\* C8: every item fetch_real_news appends, and so every item search_ai_news
\* returns, has a title that is not empty.
C8_TitlesNotEmpty ==
    InRun => \A i \in 1..Len(news_data) : Len(news_data[i].title) > 0

\* C9: when index.html cannot be read, run returns 1 and nothing is written;
\* an entry of a feed that fails is skipped, the entries after it are still
\* processed, and run does not return 1 for it.
WithoutFailingEntries(world) ==
    [k \in 1..Len(world) |->
        [world[k] EXCEPT !.items =
            SelectSeq(SubSeq(world[k].items, 1, Min(Len(world[k].items), MaxItems * 2)),
                      LAMBDA e : ~e.raises)]]

ReadFailed == io_log # <<>> /\ io_log[1] = [op |-> "read", ok |-> FALSE]

C9_ReadFailureFatalItemFailureNot ==
    /\ ReadFailed =>
          /\ pc = "done"
          /\ exit_code = 1
          /\ Len(io_log) = 1
          /\ html_content = <<>>
          /\ \E d \in 1..Len(Documents) : index_html = Documents[d]
    /\ pc = "generate" =>
          accumulated = Collected(WithoutFailingEntries(feeds), Len(keywords))
    /\ (InRun /\ exit_code = 1) => \E i \in 1..Len(io_log) : ~io_log[i].ok

\* a run that skipped a failing entry, kept a later entry of the same feed,
\* and ended on the failed read
C9_Witness ==
    /\ pc = "done"
    /\ ReadFailed
    /\ exit_code = 1
    /\ \E k \in 1..Len(keywords) :
          \E a, b \in 1..Len(feeds[k].items) :
              /\ a < b
              /\ feeds[k].items[a].raises
              /\ ~feeds[k].items[b].raises
              /\ \E i \in 1..Len(accumulated) :
                    accumulated[i].link = feeds[k].items[b].link.text

====
